---- MODULE Spec2Model ----
(***************************************************************************)
(* gw2util (main.go): a launcher that swaps a named profile file into the  *)
(* active position (Local.dat), runs the game, and swaps it back, rotating *)
(* numbered backups of the profile's saved file.                           *)
(*                                                                         *)
(* The state is the profile directory (which files exist and what they     *)
(* hold), the position of main(), and the values main() holds.  A file's   *)
(* content is a small integer; every system call of the program, os.Stat    *)
(* included, can be refused by the operating system (fuel counts the calls *)
(* until the one that is refused), and fails by itself when the file it    *)
(* needs is absent.  A copy that fails leaves any part of the source.      *)
(***************************************************************************)
EXTENDS Integers, Sequences, FiniteSets, TLC

\* ---------------------------------------------------------------- bounds
\* File contents are 0..MaxContent (0 is the empty file, see Empty).
MaxContent == 1
\* The --n flag ranges over -1..MaxPreserve.
MaxPreserve == 2

\* Positional arguments on the command line: at most MaxArgs of them.
MaxArgs == 2

\* ------------------------------------------------------------- constants
\* The largest backup index a run of the model can touch.
MaxIndex == MaxPreserve - 1
\* System calls of the longest handler (UnloadFile): RemoveAll, a Stat and
\* a Rename for each shifted slot, the final Rename, Open, Create, Copy, the
\* Stat of the marker and the restoring Rename.
MaxSyscalls == 2 * MaxPreserve + 5
\* System calls of LoadFile: Stat, Rename, Open, Create, Copy.
LoadSyscalls == 5

\* os.IsNotExist: the path names no file.
Absent == -1
\* os.Create: the file exists and holds no bytes.
Empty == 0
Contents == Empty..MaxContent
\* io.Copy stopped by an error: the file holds some of the bytes of its
\* source, not all of them.
Torn == MaxContent + 1
FileValues == {Absent} \cup Contents \cup {Torn}
\* io.Copy started by the system and stopped by an error after it has
\* written some or all of the source; "none": the copy is not stopped.
Cuts == {"none", "some", "all"}
Written(c, cut) == IF c = Empty THEN Empty ELSE IF cut = "some" THEN Torn ELSE c

\* error values: nil, "file does not exist", and a call refused by the system
NoErr == "nil"
ENOENT == "ENOENT"
EACCES == "EACCES"
\* exec.Command(...).Run() returning *exec.ExitError (non-zero exit status)
EEXIT == "exit status 1"
Errors == {NoErr, ENOENT, EACCES, EEXIT}

\* Values of the --name flag: the default, its other spellings, one profile.
Stem == "main"
Names == {"Local", "LOCAL", "local", Stem}
Preserves == (0 - 1)..MaxPreserve
\* the default of the --n flag
DefaultPreserve == 2

\* (mutant) the name is compared as it was typed
ToLower_AsTyped(s) == s

\* strings.ToLower on the names of the model
ToLower(s) == IF s \in {"Local", "LOCAL", "local"} THEN "local" ELSE s

\* ---------------------------------------------------------- launch options
\* One forwarded option is <<text, value>>: "-email=" + email is
\* <<"-email=", email>>, a plain option has the value "".
Opt(text) == <<text, "">>
ArgValues == {Opt("-windowed"), Opt("-dx9single")}
ArgLists == UNION {[1..k -> ArgValues] : k \in 0..MaxArgs}
FlagValues ==
    [args : ArgLists, autologin : BOOLEAN, loadinfo : BOOLEAN, image : BOOLEAN,
     email : {"", "a@b.c"}, password : {"", "secret"}]
\* the defaults of the flag declarations
DefaultFlags ==
    [args |-> <<>>, autologin |-> TRUE, loadinfo |-> TRUE, image |-> FALSE,
     email |-> "", password |-> ""]

\* (mutant) the credentials are prepended when either of them is set
BuildOptions_EitherCredential(fl) ==
    LET o1 == IF fl.autologin THEN Append(fl.args, Opt("-autologin")) ELSE fl.args
        o2 == IF fl.loadinfo THEN Append(o1, Opt("-maploadinfo")) ELSE o1
        o3 == IF fl.image THEN Append(o2, Opt("-image")) ELSE o2
    IN  IF fl.email # "" \/ fl.password # ""
        THEN <<(<<"-email=", fl.email>>), (<<"-password=", fl.password>>),
               Opt("-nopatchui")>> \o o3
        ELSE o3

\* main.go 53-69: options := flag.Args(), the three appends, the prepend
BuildOptions(fl) ==
    LET o1 == IF fl.autologin THEN Append(fl.args, Opt("-autologin")) ELSE fl.args
        o2 == IF fl.loadinfo THEN Append(o1, Opt("-maploadinfo")) ELSE o1
        o3 == IF fl.image THEN Append(o2, Opt("-image")) ELSE o2
    IN  IF fl.email # "" /\ fl.password # ""
        THEN <<(<<"-email=", fl.email>>), (<<"-password=", fl.password>>),
               Opt("-nopatchui")>> \o o3
        ELSE o3

\* ------------------------------------------------------------ executables
\* The one path the program runs.
ExecPath == "C:\\Program Files (x86)\\Guild Wars 2\\Gw2-64.exe"
\* The places a game client can be installed in, in the order of the
\* documented search: 64-bit and 32-bit client under each of the two
\* installation roots.
Candidates ==
    <<ExecPath,
      "C:\\Program Files (x86)\\Guild Wars 2\\Gw2.exe",
      "C:\\Program Files\\Guild Wars 2\\Gw2-64.exe",
      "C:\\Program Files\\Guild Wars 2\\Gw2.exe">>
CandidateSet == {Candidates[i] : i \in 1..Len(Candidates)}
\* the first candidate, in order, among the executables that exist
FirstOf(exes) ==
    IF exes \cap CandidateSet = {} THEN ""
    ELSE Candidates[CHOOSE i \in 1..Len(Candidates) :
                       /\ Candidates[i] \in exes
                       /\ \A j \in 1..(i - 1) : Candidates[j] \notin exes]
\* The installations a machine of the model can have: none, one of the
\* candidates, or all of them.
ExeSets == {{}, CandidateSet} \cup {{c} : c \in CandidateSet}
NoProc == [path |-> "", args |-> <<>>]

\* ----------------------------------------------------------------- paths
\* A path is <<stem, kind, index>>: <stem>.dat, <stem>.dat.bak, <stem>.dat.<index>
LoadedProfile == <<"Local", "dat", 0>>
\* file + ".bak"
BakOf(file) == <<file[1], "bak", 0>>
\* Profile.Path(): ProfileDir/<Name>.dat (the private path field is never set)
Path(this) == <<this.Name, "dat", 0>>
\* Profile.getBackup(i): <Path>.<i>
getBackup(this, i) == <<Path(this)[1], "num", i>>

ProfileStems == {n \in Names : ToLower(n) # "local"}
Paths ==
    {LoadedProfile, BakOf(LoadedProfile)}
        \cup {<<n, "dat", 0>> : n \in ProfileStems}
        \cup {<<n, "num", i>> : n \in ProfileStems, i \in 0..MaxIndex}

\* --------------------------------------------------------- system calls
\* A call state is [fs, fuel, cut, err, replaced, refused]: the directory,
\* the number of the call the system refuses (1 = the next one, 0 = none),
\* where the copy is stopped, the error of the last call, whether an
\* os.Rename has replaced an existing file, and whether the system has
\* refused or stopped a call.
Call(f, k, c) ==
    [fs |-> f, fuel |-> k, cut |-> c, err |-> NoErr, replaced |-> FALSE,
     refused |-> FALSE]
Refused(st) == st.fuel = 1
Spend(st) == [st EXCEPT !.fuel = IF @ > 1 THEN @ - 1 ELSE 0]
Fail(st, e) == [Spend(st) EXCEPT !.err = e]
\* the call is refused by the system
Refuse(st) == [Fail(st, EACCES) EXCEPT !.refused = TRUE]
\* the caller goes on without looking at the error
Dropped(st) == [st EXCEPT !.err = NoErr]

\* the path names a file of the directory
Exists(f, file) == f[file] # Absent

\* os.Stat: the error it returns
OsStat(st, file) ==
    IF Refused(st) THEN Refuse(st)
    ELSE IF ~Exists(st.fs, file) THEN Fail(st, ENOENT)
    ELSE Spend(st)

\* FileExists: !os.IsNotExist(err) for the error of os.Stat; the error is
\* dropped, the callers go on from AfterStat
FileExists(st, file) == OsStat(st, file).err # ENOENT
AfterStat(st, file) == Dropped(OsStat(st, file))

\* os.Rename: moves old to new, replacing new when it exists
OsRename(st, old, new) ==
    IF Refused(st) THEN Refuse(st)
    ELSE IF ~Exists(st.fs, old) THEN Fail(st, ENOENT)
    ELSE IF old = new THEN Spend(st)
    ELSE [Spend(st) EXCEPT !.fs = [st.fs EXCEPT ![new] = st.fs[old], ![old] = Absent],
                           !.replaced = @ \/ Exists(st.fs, new)]

\* os.RemoveAll: removes the path; an absent path is no error
OsRemoveAll(st, file) ==
    IF Refused(st) THEN Refuse(st)
    ELSE [Spend(st) EXCEPT !.fs = [st.fs EXCEPT ![file] = Absent]]

\* os.Open for reading
OsOpen(st, file) ==
    IF Refused(st) THEN Refuse(st)
    ELSE IF ~Exists(st.fs, file) THEN Fail(st, ENOENT)
    ELSE Spend(st)

\* os.Create: creates the file or truncates it
OsCreate(st, file) ==
    IF Refused(st) THEN Refuse(st)
    ELSE [Spend(st) EXCEPT !.fs = [st.fs EXCEPT ![file] = Empty]]

\* io.Copy(dstf, srcf): a refused copy writes nothing, a stopped one has
\* written st.cut of the source; both return the error
IoCopy(st, src, dst) ==
    IF Refused(st) THEN Refuse(st)
    ELSE IF st.cut # "none"
    THEN [Refuse(st) EXCEPT
             !.fs = [st.fs EXCEPT ![dst] = Written(st.fs[src], st.cut)]]
    ELSE [Spend(st) EXCEPT !.fs = [st.fs EXCEPT ![dst] = st.fs[src]]]

\* ------------------------------------------------------------- helpers
SimpleBackup(st, file) ==
    IF FileExists(st, file)
    THEN OsRename(AfterStat(st, file), file, BakOf(file))
    ELSE AfterStat(st, file)

\* (mutant) the marker is never renamed back
SimpleRestore_Skip(st, file) == st

SimpleRestore(st, file) ==
    IF FileExists(st, BakOf(file))
    THEN OsRename(AfterStat(st, BakOf(file)), BakOf(file), file)
    ELSE AfterStat(st, BakOf(file))

SimpleCopy(st, src, dst) ==
    LET a == OsOpen(st, src) IN
    IF a.err # NoErr THEN a
    ELSE LET b == OsCreate(a, dst) IN
         IF b.err # NoErr THEN b
         ELSE IoCopy(b, src, dst)

\* (mutant) the loop stops one slot early: i > 1
RECURSIVE RollLoop_OffByOne(_, _, _)
RollLoop_OffByOne(st, this, i) ==
    IF i <= 1 THEN st
    ELSE IF FileExists(st, getBackup(this, i - 1))
         THEN LET a == OsRename(AfterStat(st, getBackup(this, i - 1)),
                                getBackup(this, i - 1), getBackup(this, i)) IN
              IF a.err # NoErr THEN a ELSE RollLoop_OffByOne(a, this, i - 1)
         ELSE RollLoop_OffByOne(AfterStat(st, getBackup(this, i - 1)), this, i - 1)

\* the loop of RollBackups: for i := Preserve-1; i > 0; i--
RECURSIVE RollLoop(_, _, _)
RollLoop(st, this, i) ==
    IF i <= 0 THEN st
    ELSE IF FileExists(st, getBackup(this, i - 1))
         THEN LET a == OsRename(AfterStat(st, getBackup(this, i - 1)),
                                getBackup(this, i - 1), getBackup(this, i)) IN
              IF a.err # NoErr THEN a ELSE RollLoop(a, this, i - 1)
         ELSE RollLoop(AfterStat(st, getBackup(this, i - 1)), this, i - 1)

\* (mutant) the oldest slot is removed after the chain has been shifted
RollBackups_RemoveLast(st, this) ==
    IF this.Preserve < 1 THEN st
    ELSE LET a == RollLoop(st, this, this.Preserve - 1) IN
         IF a.err # NoErr THEN a
         ELSE LET b == OsRemoveAll(a, getBackup(this, this.Preserve - 1)) IN
              IF b.err # NoErr THEN b
              ELSE OsRename(b, Path(this), getBackup(this, 0))

\* (mutant) the oldest slot is not removed before the chain is shifted
RollBackups_NoRemove(st, this) ==
    IF this.Preserve < 1 THEN st
    ELSE LET b == RollLoop(st, this, this.Preserve - 1) IN
         IF b.err # NoErr THEN b
         ELSE OsRename(b, Path(this), getBackup(this, 0))

\* (mutant) the guard lets a count of 0 through: Preserve < 0
RollBackups_GuardNegative(st, this) ==
    IF this.Preserve < 0 THEN st
    ELSE LET a == OsRemoveAll(st, getBackup(this, this.Preserve - 1)) IN
         IF a.err # NoErr THEN a
         ELSE LET b == RollLoop(a, this, this.Preserve - 1) IN
              IF b.err # NoErr THEN b
              ELSE OsRename(b, Path(this), getBackup(this, 0))

RollBackups(st, this) ==
    IF this.Preserve < 1 THEN st
    ELSE LET a == OsRemoveAll(st, getBackup(this, this.Preserve - 1)) IN
         IF a.err # NoErr THEN a
         ELSE LET b == RollLoop(a, this, this.Preserve - 1) IN
              IF b.err # NoErr THEN b
              ELSE OsRename(b, Path(this), getBackup(this, 0))

\* (mutant) the profile is copied in before the active file is set aside
LoadFile_CopyFirst(st, this) ==
    LET a == SimpleCopy(st, Path(this), LoadedProfile) IN
    IF a.err # NoErr THEN a
    ELSE SimpleBackup(a, LoadedProfile)

LoadFile(st, this) ==
    LET a == SimpleBackup(st, LoadedProfile) IN
    IF a.err # NoErr THEN a
    ELSE SimpleCopy(a, Path(this), LoadedProfile)

\* (mutant) the original is restored before the active file is saved
UnloadFile_RestoreFirst(st, this) ==
    LET a == RollBackups(st, this) IN
    IF a.err # NoErr THEN a
    ELSE LET b == SimpleRestore(a, LoadedProfile) IN
         IF b.err # NoErr THEN b
         ELSE SimpleCopy(b, LoadedProfile, Path(this))

\* (mutant) the marker is renamed back without asking whether it exists
UnloadFile_RestoreUnchecked(st, this) ==
    LET a == RollBackups(st, this) IN
    IF a.err # NoErr THEN a
    ELSE LET b == SimpleCopy(a, LoadedProfile, Path(this)) IN
         IF b.err # NoErr THEN b
         ELSE OsRename(b, BakOf(LoadedProfile), LoadedProfile)

\* (mutant) every step runs whatever the earlier ones returned; the first
\* error is returned at the end
UnloadFile_KeepGoing(st, this) ==
    LET a == RollBackups(st, this)
        b == SimpleCopy([a EXCEPT !.err = NoErr], LoadedProfile, Path(this))
        c == SimpleRestore([b EXCEPT !.err = NoErr], LoadedProfile)
    IN  [c EXCEPT !.err = IF a.err # NoErr THEN a.err
                          ELSE IF b.err # NoErr THEN b.err ELSE c.err]

UnloadFile(st, this) ==
    LET a == RollBackups(st, this) IN
    IF a.err # NoErr THEN a
    ELSE LET b == SimpleCopy(a, LoadedProfile, Path(this)) IN
         IF b.err # NoErr THEN b
         ELSE SimpleRestore(b, LoadedProfile)

\* The system calls UnloadFile makes at most: with a rotation RemoveAll, a
\* Stat and a Rename per shifted slot and the final Rename; then Open,
\* Create, Copy, the Stat of the marker and the restoring Rename.
UnloadSyscalls(this) ==
    IF this.Preserve < 1 THEN 5 ELSE 2 * this.Preserve + 5
\* One failure at most in a handler that makes at most n calls: the system
\* refuses the fuel-th call, or it stops the copy.
Fault(fuel, cut, n) == fuel <= n /\ (cut # "none" => fuel = 0)

\* ----------------------------------------------------------------- state
VARIABLES
    fs,          \* the profile directory: path -> content or Absent
    pc,          \* position of main(): idle, main, launch, defer, done
    flags,       \* the command line as flag.Parse read it
    profile,     \* the Profile value main() builds from the flags
    proc,        \* the process LaunchGW2 started: its path and arguments
    firstExe,    \* history: the first candidate executable that existed
    deferred,    \* main() has registered its deferred UnloadFile
    loadErr,     \* what LoadFile returned in this run
    launchErr,   \* what LaunchGW2 returned in this run
    unloadErr,   \* what UnloadFile returned in this run (main drops it)
    unloaded,    \* UnloadFile was called in this run
    refusal,     \* history: the system refused or stopped a call of this run
    prompted,    \* Exit printed its prompt and waited for ENTER
    exitCode,    \* the exit status of the process, once pc = "done"
    preActive,   \* history: the active file before this run's LoadFile
    preSaved,    \* history: the saved file before this run's LoadFile
    cycles,      \* history: successive Load/Unload cycles with one --n
    cycleN       \* history: the --n of those cycles

vars == <<fs, pc, flags, profile, proc, firstExe, deferred, loadErr, launchErr,
          unloadErr, unloaded, refusal, prompted, exitCode, preActive, preSaved,
          cycles, cycleN>>

hist == <<refusal, preActive, preSaved, cycles, cycleN>>

Active == fs[LoadedProfile]
Bak == fs[BakOf(LoadedProfile)]
IsLocal == ToLower(profile.Name) = "local"

TypeOK ==
    /\ fs \in [Paths -> FileValues]
    /\ pc \in {"idle", "main", "launch", "defer", "done"}
    /\ flags \in FlagValues
    /\ profile \in [Name : Names, Preserve : Preserves,
                     Options : Seq(STRING \X STRING)]
    /\ proc.path \in {"", ExecPath}
    /\ firstExe \in CandidateSet \cup {""}
    /\ deferred \in BOOLEAN /\ unloaded \in BOOLEAN /\ prompted \in BOOLEAN
    /\ refusal \in BOOLEAN
    /\ loadErr \in Errors /\ launchErr \in Errors /\ unloadErr \in Errors
    /\ exitCode \in {0, 1}
    /\ preActive \in FileValues /\ preSaved \in FileValues
    /\ cycles \in 0..MaxPreserve /\ cycleN \in Preserves

\* The directory before the first run: the game's own Local.dat may exist,
\* the user may have put a saved profile there, nothing else exists.
Init ==
    /\ \E a \in {Absent} \cup Contents, s \in {Absent} \cup Contents :
          fs = [p \in Paths |->
                   IF p = LoadedProfile THEN a
                   ELSE IF p \in {<<n, "dat", 0>> : n \in ProfileStems} THEN s
                   ELSE Absent]
    /\ pc = "idle"
    /\ flags = DefaultFlags
    /\ profile = [Name |-> "Local", Preserve |-> DefaultPreserve, Options |-> <<>>]
    /\ proc = NoProc /\ firstExe = ""
    /\ deferred = FALSE /\ unloaded = FALSE /\ prompted = FALSE
    /\ refusal = FALSE
    /\ loadErr = NoErr /\ launchErr = NoErr /\ unloadErr = NoErr
    /\ exitCode = 0
    /\ preActive = Absent /\ preSaved = Absent
    /\ cycles = 0 /\ cycleN = 0

\* --------------------------------------------------------------- actions
\* A new run of the program: flag.Parse and the Profile literal (main.go 40-70).
ParseFlags(name, n, fl) ==
    /\ pc = "idle"
    /\ pc' = "main"
    /\ flags' = fl
    /\ profile' = [Name |-> name, Preserve |-> n, Options |-> BuildOptions(fl)]
    /\ proc' = NoProc /\ firstExe' = ""
    /\ deferred' = FALSE /\ unloaded' = FALSE /\ prompted' = FALSE
    /\ refusal' = FALSE
    /\ loadErr' = NoErr /\ launchErr' = NoErr /\ unloadErr' = NoErr
    /\ exitCode' = 0
    /\ preActive' = Absent /\ preSaved' = Absent
    /\ UNCHANGED <<fs, cycles, cycleN>>

\* main.go 74-81 with a profile name other than "local": LoadFile, and
\* Exit(err) when it fails; the two defers are registered when it succeeds.
LoadProfile(fuel, cut) ==
    /\ pc = "main"
    /\ ~IsLocal
    /\ Fault(fuel, cut, LoadSyscalls)
    /\ LET r == LoadFile(Call(fs, fuel, cut), profile) IN
          /\ fs' = r.fs
          /\ loadErr' = r.err
          /\ refusal' = r.refused
          /\ IF r.err # NoErr
             THEN /\ pc' = "done" /\ prompted' = TRUE /\ exitCode' = 1
                  /\ deferred' = FALSE
             ELSE /\ pc' = "launch" /\ deferred' = TRUE
                  /\ UNCHANGED <<prompted, exitCode>>
    /\ preActive' = Active
    /\ preSaved' = fs[Path(profile)]
    /\ UNCHANGED <<flags, profile, proc, firstExe, launchErr, unloadErr,
                   unloaded, cycles, cycleN>>

\* main.go 74 with the profile name "local" in any case: nothing is loaded.
SkipLoad ==
    /\ pc = "main"
    /\ IsLocal
    /\ pc' = "launch"
    /\ UNCHANGED <<fs, flags, profile, proc, firstExe, deferred, loadErr,
                   launchErr, unloadErr, unloaded, prompted, exitCode, hist>>

\* main.go 84-87: LaunchGW2 runs ExecPath with the options and waits for it.
\* exes are the executables that exist.  When ExecPath is not among them no
\* process starts; a started process may rewrite the active file and ends
\* with status 0 or not.  An error goes to Exit, which ends the process
\* with os.Exit(1); os.Exit runs no deferred call.
Launch(exes, outcome, written) ==
    /\ pc = "launch"
    /\ outcome = ENOENT <=> ExecPath \notin exes
    /\ outcome = ENOENT => written = Absent
    /\ proc' = IF ExecPath \in exes
               THEN [path |-> ExecPath, args |-> profile.Options]
               ELSE NoProc
    /\ firstExe' = FirstOf(exes)
    /\ fs' = IF written = Absent THEN fs
             ELSE [fs EXCEPT ![LoadedProfile] = written]
    /\ launchErr' = outcome
    /\ IF outcome # NoErr
       THEN /\ pc' = "done" /\ prompted' = TRUE /\ exitCode' = 1
       ELSE /\ pc' = IF deferred THEN "defer" ELSE "done"
            /\ UNCHANGED <<prompted, exitCode>>
    /\ UNCHANGED <<flags, profile, deferred, loadErr, unloadErr, unloaded, hist>>

\* The process is gone (os.Exit in Exit, or main returned): nothing of the
\* run is left but the directory.
ProcessExit ==
    /\ pc = "done"
    /\ pc' = "idle"
    /\ flags' = DefaultFlags
    /\ profile' = [Name |-> "Local", Preserve |-> DefaultPreserve, Options |-> <<>>]
    /\ proc' = NoProc /\ firstExe' = ""
    /\ deferred' = FALSE /\ unloaded' = FALSE /\ prompted' = FALSE
    /\ refusal' = FALSE
    /\ loadErr' = NoErr /\ launchErr' = NoErr /\ unloadErr' = NoErr
    /\ exitCode' = 0
    /\ preActive' = Absent /\ preSaved' = Absent
    /\ UNCHANGED <<fs, cycles, cycleN>>

\* History only: the number of successive runs of one profile, all with the
\* --n of the run now ending, whose UnloadFile returned nil; counted up to n.
NextCycles(ok) ==
    IF ~ok \/ profile.Preserve < 1 THEN 0
    ELSE IF cycleN # profile.Preserve THEN 1
    ELSE IF cycles < cycleN THEN cycles + 1 ELSE cycles
\* History only: the step of RunDeferred counted as one more cycle.
CountCycle ==
    /\ cycles' = NextCycles(unloadErr' = NoErr)
    /\ cycleN' = IF unloadErr' = NoErr /\ profile.Preserve >= 1
                 THEN profile.Preserve ELSE 0

\* main.go 79-80, 87: main returns, the deferred profile.UnloadFile() runs
\* (its result is dropped), then the deferred sleep; the process ends with 0.
RunDeferred(fuel, cut) ==
    /\ pc = "defer"
    /\ Fault(fuel, cut, UnloadSyscalls(profile))
    /\ LET r == UnloadFile(Call(fs, fuel, cut), profile) IN
          /\ fs' = r.fs
          /\ unloadErr' = r.err
          /\ refusal' = (refusal \/ r.refused)
    /\ unloaded' = TRUE
    /\ pc' = "done"
    /\ exitCode' = 0
    /\ UNCHANGED <<flags, profile, proc, firstExe, deferred, loadErr,
                   launchErr, prompted, preActive, preSaved>>

\* The runs of the model: a named profile with every --n, the default name
\* in its spellings with the default --n; the one executable the program
\* knows is installed or not.
Next ==
    \/ \E name \in ProfileStems, n \in Preserves :
          ParseFlags(name, n, DefaultFlags)
    \/ \E name \in Names \ ProfileStems :
          ParseFlags(name, DefaultPreserve, DefaultFlags)
    \/ \E fuel \in 0..MaxSyscalls, cut \in Cuts : LoadProfile(fuel, cut)
    \/ SkipLoad
    \/ \E exes \in {{}, {ExecPath}}, outcome \in {NoErr, ENOENT, EEXIT},
          written \in {Absent} \cup Contents :
          Launch(exes, outcome, written)
    \/ \E fuel \in 0..MaxSyscalls, cut \in Cuts :
          RunDeferred(fuel, cut) /\ UNCHANGED <<cycles, cycleN>>
    \/ ProcessExit

Spec == Init /\ [][Next]_vars

\* Successive runs of the named profile, counted: every --n, every call
\* refused in turn, the game installed.
NextRotation ==
    \/ \E n \in Preserves : ParseFlags(Stem, n, DefaultFlags)
    \/ \E fuel \in 0..MaxSyscalls : LoadProfile(fuel, "none")
    \/ \E outcome \in {NoErr, EEXIT}, written \in {Absent} \cup Contents :
          Launch({ExecPath}, outcome, written)
    \/ \E fuel \in 0..MaxSyscalls : RunDeferred(fuel, "none") /\ CountCycle
    \/ ProcessExit

SpecRotation == Init /\ [][NextRotation]_vars

\* The command line in full: runs under the default profile name with every
\* combination of the launch flags and positional arguments, on machines
\* with every installation of ExeSets.
NextOptions ==
    \/ \E fl \in FlagValues : ParseFlags("Local", DefaultPreserve, fl)
    \/ SkipLoad
    \/ \E exes \in ExeSets, outcome \in {NoErr, ENOENT, EEXIT} :
          Launch(exes, outcome, Absent)
    \/ ProcessExit

SpecOptions == Init /\ [][NextOptions]_vars

\* ----------------------------------------------------------------- claims
Saved == fs[Path(profile)]
Backup(i) == fs[<<Stem, "num", i>>]
\* the step in which the deferred UnloadFile ran and returned nil
UnloadOk == pc = "defer" /\ pc' = "done" /\ unloadErr' = NoErr
\* the process has ended after an UnloadFile that returned nil
UnloadedOk == pc = "done" /\ unloaded /\ unloadErr = NoErr

\* C1: in a run with a non-default profile whose Load succeeded and whose
\* launched process has ended (with status 0 or not), the Unload sequence
\* has been executed by the time the program terminates.
C1_UnloadBeforeExit ==
    (pc = "done" /\ ~IsLocal /\ loadErr = NoErr /\ launchErr \in {NoErr, EEXIT})
      => unloaded

\* C2: when the active file existed before Load, a completed Unload leaves
\* the active path with the content it had before Load and no .bak marker,
\* whatever the launched process wrote; when no .bak marker exists at
\* Unload, the active path keeps the content that was just saved.
C2_ActiveRestored ==
    [][UnloadOk =>
          /\ preActive # Absent =>
                (fs'[LoadedProfile] = preActive /\ fs'[BakOf(LoadedProfile)] = Absent)
          /\ Bak = Absent =>
                (fs'[LoadedProfile] = Active /\ fs'[LoadedProfile] = fs'[Path(profile)])
      ]_vars

C2_Witness ==
    /\ UnloadedOk
    /\ preActive # Absent /\ Active = preActive /\ Bak = Absent
    /\ Saved # Active /\ Saved # preSaved

\* C3: after a successful Unload the profile's saved file holds the content
\* the active file had when the launched process ended.
C3_ChangesPersisted ==
    [][UnloadOk => fs'[Path(profile)] = Active]_vars

C3_Witness ==
    /\ UnloadedOk
    /\ preActive # Absent /\ Saved # preActive
    /\ Saved # preSaved /\ Saved # Absent

\* C4: Load copies the saved file into the active path and leaves the saved
\* file as it was; an Unload that finds the active file with that content
\* leaves the saved file with the content it had before Load, for every
\* preserveCount and whether or not an active file existed before Load.
C4_LoadUnloadRoundTrip ==
    [][/\ (pc = "main" /\ pc' = "launch" /\ deferred') =>
             (fs'[LoadedProfile] = preSaved' /\ fs'[Path(profile)] = preSaved'
                /\ preSaved' = Saved)
       /\ (UnloadOk /\ Active = preSaved) => fs'[Path(profile)] = preSaved
      ]_vars

C4_Witness ==
    /\ UnloadedOk
    /\ preSaved # Absent /\ Saved = preSaved
    /\ preActive = Absent /\ Active = preSaved
    /\ profile.Preserve = 2 /\ Backup(0) = preSaved

\* C5 (as stated): after K >= N successive cycles with preserveCount N > 0
\* exactly N backup files exist, with indices exactly 0..N-1.
C5_ExactlyN ==
    (cycleN >= 1 /\ cycles >= cycleN) =>
        {i \in 0..MaxIndex : Backup(i) # Absent} = 0..(cycleN - 1)

\* C5 (amended): after K >= N successive cycles with preserveCount N > 0 the
\* backups 0..N-1 all exist, and backup 0 holds the content the saved file
\* had just before the latest Unload; an Unload with preserveCount N leaves
\* every backup of index >= N as it was.
C5_WindowFilled ==
    [][/\ (cycleN' >= 1 /\ cycles' >= cycleN') =>
             \A i \in 0..(cycleN' - 1) : fs'[<<Stem, "num", i>>] # Absent
       /\ (UnloadOk /\ profile.Preserve >= 1) =>
             /\ fs'[getBackup(profile, 0)] = Saved
             /\ \A i \in profile.Preserve..MaxIndex :
                   fs'[getBackup(profile, i)] = fs[getBackup(profile, i)]
      ]_vars

C5_Witness ==
    /\ UnloadedOk
    /\ profile.Preserve = 2 /\ cycleN = 2 /\ cycles = 2
    /\ Backup(0) # Absent /\ Backup(1) # Absent /\ Backup(0) # Backup(1)

\* C6: one rotation with preserveCount N > 0 shifts the chain by one slot:
\* for 1 <= i <= N-1, a backup i-1 that existed before is backup i after,
\* and backup 0 afterwards holds the saved file as it was before the Unload.
C6_ShiftByOne ==
    [][(UnloadOk /\ profile.Preserve >= 1) =>
          /\ \A i \in 1..(profile.Preserve - 1) :
                fs[getBackup(profile, i - 1)] # Absent =>
                    fs'[getBackup(profile, i)] = fs[getBackup(profile, i - 1)]
          /\ fs'[getBackup(profile, 0)] = Saved
      ]_vars

C6_Witness ==
    /\ UnloadedOk
    /\ profile.Preserve = 2
    /\ Backup(1) # Absent /\ Backup(0) = preSaved /\ Backup(0) # Backup(1)
    /\ Saved # Backup(0)

\* C7: when the profile's saved file does not exist, Load returns no error
\* (unless the system refuses a call), leaves the active path absent, and
\* the run goes on to Launch.
C7_NewProfileLoads ==
    (~IsLocal /\ pc \in {"launch", "defer", "done"} /\ preSaved = Absent
        /\ ~refusal)
      => (loadErr = NoErr /\ deferred)

\* C8: every error of a step of the run is surfaced through the prompt and
\* makes the exit status 1; the exit status is 0 only when every step
\* succeeded.
C8_ErrorsSurfaced ==
    pc = "done" =>
        /\ (loadErr # NoErr \/ launchErr # NoErr \/ unloadErr # NoErr) =>
              (prompted /\ exitCode = 1)
        /\ exitCode = 0 =>
              (loadErr = NoErr /\ launchErr = NoErr /\ unloadErr = NoErr)

C10_MarkerOnlyWhileLoaded ==
    Bak # Absent =>
        (pc \in {"launch", "defer"} /\ deferred /\ preActive # Absent
            /\ Bak = preActive)

\* C11: when the profile name is "local" in any letter case, neither Load
\* nor Unload runs: no step of the run changes a saved profile file, a
\* backup or the .bak marker, the program's own steps leave the active
\* file alone too (only the launched process may write it), no deferred
\* Unload is registered and none runs.
C11_LocalRunTouchesNothing ==
    [][(profile.Name \in {"Local", "LOCAL", "local"}
          /\ pc \in {"main", "launch", "done"}) =>
          /\ pc' \in {"launch", "done", "idle"}
          /\ ~deferred' /\ ~unloaded' /\ loadErr' = NoErr /\ unloadErr' = NoErr
          /\ \A p \in Paths \ {LoadedProfile} : fs'[p] = fs[p]
          /\ pc # "launch" => fs' = fs
      ]_vars

C11_Witness ==
    /\ pc = "done" /\ profile.Name = "LOCAL"
    /\ launchErr = NoErr /\ exitCode = 0 /\ ~unloaded
    /\ Bak # Absent /\ fs[<<Stem, "dat", 0>>] # Absent /\ Backup(0) # Absent

\* C12: for preserveCount <= 0 RotateBackups is a no-op on every directory:
\* it makes no system call, returns no error and changes no file; an Unload
\* with such a count leaves every backup as it was and the saved file in
\* place.
C12_NoRotationBelowOne ==
    [][/\ \A n \in {m \in Preserves : m <= 0}, fuel \in 0..MaxSyscalls :
             RollBackups(Call(fs, fuel, "none"), [profile EXCEPT !.Preserve = n])
                = Call(fs, fuel, "none")
       /\ (pc = "defer" /\ pc' = "done" /\ profile.Preserve <= 0) =>
             /\ \A i \in 0..MaxIndex :
                   fs'[getBackup(profile, i)] = fs[getBackup(profile, i)]
             /\ fs'[Path(profile)] # Absent
      ]_vars

C12_Witness ==
    /\ UnloadedOk
    /\ profile.Preserve = 0
    /\ Backup(0) # Absent /\ Backup(1) # Absent
    /\ Saved # preSaved /\ Saved # Backup(0)

\* C13: Launch invokes the first candidate executable that exists; when no
\* candidate exists it fails with "not found" and starts no process.
C13_FirstCandidateRuns ==
    (pc \in {"defer", "done"} /\ loadErr = NoErr) =>
        IF firstExe # ""
        THEN proc.path = firstExe /\ launchErr \in {NoErr, EEXIT}
        ELSE proc = NoProc /\ launchErr = ENOENT

\* the option list the claim describes
ExpectedOptions(fl) ==
    (IF fl.email # "" /\ fl.password # ""
     THEN <<(<<"-email=", fl.email>>), (<<"-password=", fl.password>>),
            Opt("-nopatchui")>>
     ELSE <<>>)
    \o fl.args
    \o (IF fl.autologin THEN <<Opt("-autologin")>> ELSE <<>>)
    \o (IF fl.loadinfo THEN <<Opt("-maploadinfo")>> ELSE <<>>)
    \o (IF fl.image THEN <<Opt("-image")>> ELSE <<>>)

\* C14: the options forwarded to the launched process are the credential
\* flags and -nopatchui, present exactly when --email and --password are
\* both non-empty, then the positional arguments in order, then -autologin,
\* -maploadinfo and -image, each exactly when its flag is true.
C14_ForwardedOptions ==
    /\ pc # "idle" => profile.Options = ExpectedOptions(flags)
    /\ proc # NoProc => proc.args = ExpectedOptions(flags)

C14_Witness ==
    /\ pc = "done" /\ proc.path = ExecPath
    /\ flags.email # "" /\ flags.password = ""
    /\ Len(flags.args) = 2 /\ flags.args[1] # flags.args[2]
    /\ flags.image /\ ~flags.autologin
    /\ proc.args = flags.args \o <<Opt("-maploadinfo"), Opt("-image")>>

\* C15: an error in a step aborts every later step.  A failed Load ends the
\* run: no process is started and Unload does not run; when setting the
\* active file aside fails, nothing is copied into the active path.  When
\* RotateBackups fails, Unload does what the rotation did and nothing more
\* (no copy, no restore); when the copy fails, Unload stops there (no
\* restore): an Unload that returns an error leaves the .bak marker alone.
C15_ErrorAbortsSequence ==
    /\ loadErr # NoErr =>
          (pc = "done" /\ proc = NoProc /\ launchErr = NoErr
             /\ ~deferred /\ ~unloaded)
    /\ (pc = "main" /\ ~IsLocal) =>
          \A fuel \in 0..LoadSyscalls, cut \in Cuts :
             LET a == SimpleBackup(Call(fs, fuel, cut), LoadedProfile)
             IN  (Fault(fuel, cut, LoadSyscalls) /\ a.err # NoErr) =>
                    LoadFile(Call(fs, fuel, cut), profile) = a
    /\ pc = "defer" =>
          \A fuel \in 0..MaxSyscalls, cut \in Cuts :
             LET a == RollBackups(Call(fs, fuel, cut), profile)
                 b == SimpleCopy(a, LoadedProfile, Path(profile))
                 r == UnloadFile(Call(fs, fuel, cut), profile)
             IN  Fault(fuel, cut, UnloadSyscalls(profile)) =>
                    /\ a.err # NoErr => r = a
                    /\ (a.err = NoErr /\ b.err # NoErr) => r = b
                    /\ r.err # NoErr => r.fs[BakOf(LoadedProfile)] = Bak

C15_Witness ==
    /\ pc = "done" /\ unloaded /\ unloadErr = EACCES
    /\ profile.Preserve >= 1 /\ Backup(0) = preSaved /\ preSaved # Absent
    /\ Saved = Absent
    /\ Bak # Absent /\ Bak = preActive

\* C16: on every directory the program reaches, a rotation with
\* preserveCount N > 0 replaces no file by a rename, and afterwards slot i
\* holds exactly what slot i-1 held before, for
\* 1 <= i <= N-1: a content is moved one slot up and an absent slot i-1
\* leaves slot i absent; only what slot N-1 held is discarded.
C16_OnlyOldestDiscarded ==
    \A n \in 1..MaxPreserve :
       LET this == [profile EXCEPT !.Name = Stem, !.Preserve = n]
           r == RollBackups(Call(fs, 0, "none"), this)
       IN  /\ ~r.replaced
           /\ r.err = NoErr =>
                 \A i \in 1..(n - 1) :
                    r.fs[getBackup(this, i)] = fs[getBackup(this, i - 1)]

C16_Witness ==
    /\ UnloadedOk
    /\ profile.Preserve = 2
    /\ Backup(1) = Absent /\ Backup(0) = preSaved /\ Saved # Backup(0)

\* C17: over successive runs the content the active file had is never
\* destroyed by the program: during and after a run with a non-default
\* profile the active path or the .bak marker holds what the active file
\* held before that run's Load, and a Load leaves a .bak marker that an
\* earlier run left behind as it was.
C17_OriginalNeverDestroyed ==
    [][/\ (~IsLocal' /\ pc' \in {"launch", "defer", "done"}
             /\ preActive' # Absent) =>
                preActive' \in {fs'[LoadedProfile], fs'[BakOf(LoadedProfile)]}
       /\ (pc = "main" /\ ~IsLocal /\ Bak # Absent) =>
             fs'[BakOf(LoadedProfile)] = Bak
      ]_vars

====
